---- MODULE Spec2Model ----
\* The EV comparison dashboard, brand_dashboard.py: one Streamlit script that
\* loads cleaned_data.csv through st.cache_data, offers three cascading
\* multiselects, filters the table and draws four charts, the radar chart from
\* min-max scaled features.  One run of the script is modelled in two steps,
\* RunFilters (lines 16-48) and Present (lines 50-160).
EXTENDS Integers, Sequences, FiniteSets, TLC

VARIABLES
    file,                 \* the rows of cleaned_data.csv on disk
    cache,                \* st.cache_data's entry for load_data(): <<>> or <<df>>
    read_csv_calls,       \* what each execution of pd.read_csv returned, in order
    pc,                   \* "idle" between runs, "filtered" after line 48
    df,
    brands, selected_brands,
    drivetrains, selected_drivetrains,
    models, selected_models,
    df_filtered,
    shown,                \* the elements the latest run has put on the page
    fig_radar             \* the traces of the radar figure of the latest run

vars == <<file, cache, read_csv_calls, pc, df, brands, selected_brands,
          drivetrains, selected_drivetrains, models, selected_models,
          df_filtered, shown, fig_radar>>

-----------------------------------------------------------------------------
\* Bounds of the model

\* rows of cleaned_data.csv
MaxRows == 2

-----------------------------------------------------------------------------
\* float64 arithmetic, as numpy does it for MinMaxScaler: a double is
\* (-1)^s * m * 2^e with m = 0 or 2^52 <= m < 2^53; m is kept as a sequence of
\* 15-bit limbs, lowest first, and every operation rounds to nearest, ties to
\* even.  Exponent range limits (overflow, subnormals) are not reached by the
\* values of the dashboard and are not modelled.

\* significand bits of float64
Precision == 53
Base == 2^15

RECURSIVE BTrim(_)
BTrim(a) == IF a = <<>> THEN a
            ELSE IF a[Len(a)] = 0 THEN BTrim(SubSeq(a, 1, Len(a) - 1)) ELSE a

RECURSIVE BFromInt(_)
BFromInt(n) == IF n = 0 THEN <<>> ELSE <<n % Base>> \o BFromInt(n \div Base)

BLimb(a, i) == IF i <= Len(a) THEN a[i] ELSE 0

RECURSIVE BAddC(_, _, _, _)
BAddC(a, b, i, c) ==
    IF i > Len(a) /\ i > Len(b)
    THEN (IF c = 0 THEN <<>> ELSE <<c>>)
    ELSE LET s == BLimb(a, i) + BLimb(b, i) + c
         IN  <<s % Base>> \o BAddC(a, b, i + 1, s \div Base)
BAdd(a, b) == BAddC(a, b, 1, 0)

\* a - b for a >= b
RECURSIVE BSubC(_, _, _, _)
BSubC(a, b, i, c) ==
    IF i > Len(a) THEN <<>>
    ELSE LET s == BLimb(a, i) - BLimb(b, i) - c
         IN  IF s < 0 THEN <<s + Base>> \o BSubC(a, b, i + 1, 1)
             ELSE <<s>> \o BSubC(a, b, i + 1, 0)
BSub(a, b) == BTrim(BSubC(a, b, 1, 0))

\* -1, 0, 1 as a < b, a = b, a > b (trimmed operands)
RECURSIVE BCmpAt(_, _, _)
BCmpAt(a, b, i) ==
    IF i = 0 THEN 0
    ELSE IF a[i] < b[i] THEN -1
    ELSE IF a[i] > b[i] THEN 1
    ELSE BCmpAt(a, b, i - 1)
BCmp(a, b) ==
    IF Len(a) < Len(b) THEN -1
    ELSE IF Len(a) > Len(b) THEN 1
    ELSE BCmpAt(a, b, Len(a))

RECURSIVE BMulSmallC(_, _, _, _)
BMulSmallC(a, k, i, c) ==
    IF i > Len(a) THEN (IF c = 0 THEN <<>> ELSE <<c>>)
    ELSE LET s == a[i] * k + c
         IN  <<s % Base>> \o BMulSmallC(a, k, i + 1, s \div Base)
BMulSmall(a, k) == IF k = 0 THEN <<>> ELSE BMulSmallC(a, k, 1, 0)

RECURSIVE BMul(_, _)
BMul(a, b) ==
    IF b = <<>> \/ a = <<>> THEN <<>>
    ELSE BAdd(BMulSmall(a, b[1]), 
              LET r == BMul(a, Tail(b)) IN IF r = <<>> THEN <<>> ELSE <<0>> \o r)

RECURSIVE BitLenInt(_)
BitLenInt(n) == IF n = 0 THEN 0 ELSE 1 + BitLenInt(n \div 2)

BBitLen(a) == IF a = <<>> THEN 0 ELSE 15 * (Len(a) - 1) + BitLenInt(a[Len(a)])

\* a * 2^n
BShl(a, n) ==
    IF a = <<>> THEN <<>>
    ELSE [i \in 1..(n \div 15) |-> 0] \o BMulSmall(a, 2^(n % 15))

\* floor(a / 2^n)
RECURSIVE BShrBits(_, _, _)
BShrBits(a, k, i) ==
    IF i > Len(a) THEN <<>>
    ELSE <<(a[i] \div 2^(k)) + (BLimb(a, i + 1) % 2^(k)) * 2^(15 - k)>>
         \o BShrBits(a, k, i + 1)
BShr(a, n) ==
    LET w == n \div 15
        t == IF w >= Len(a) THEN <<>> ELSE SubSeq(a, w + 1, Len(a))
    IN  BTrim(BShrBits(t, n % 15, 1))

BOdd(a) == a # <<>> /\ a[1] % 2 = 1

\* short division by a one-limb divisor k, from the top limb down
RECURSIVE BDivSmall(_, _, _, _, _)
BDivSmall(n, k, j, q, r) ==
    IF j = 0 THEN [q |-> BTrim(q), sticky |-> r # 0]
    ELSE LET t == r * Base + n[j]
         IN  BDivSmall(n, k, j - 1, <<t \div k>> \o q, t % k)

\* floor(n / d) and whether a remainder is left, for a divisor of one limb
BDiv(n, d) == BDivSmall(n, d[1], Len(n), <<>>, 0)

Zero == [s |-> 0, m |-> <<>>, e |-> 0]

\* the double nearest to (-1)^s * (n + sticky fraction) * 2^e, ties to even
Round(s, n, e, sticky) ==
    IF n = <<>> THEN Zero
    ELSE LET L == BBitLen(n) IN
         IF L <= Precision
         THEN [s |-> s, m |-> BShl(n, Precision - L), e |-> e - (Precision - L)]
         ELSE LET sh   == L - Precision
                  q    == BShr(n, sh)
                  rem  == BSub(n, BShl(q, sh))
                  half == BShl(<<1>>, sh - 1)
                  c    == BCmp(rem, half)
                  up   == c > 0 \/ (c = 0 /\ (sticky \/ BOdd(q)))
                  q2   == IF up THEN BAdd(q, <<1>>) ELSE q
              IN  IF BBitLen(q2) > Precision
                  THEN [s |-> s, m |-> BShr(q2, 1), e |-> e + sh + 1]
                  ELSE [s |-> s, m |-> q2, e |-> e + sh]

FFromInt(n) == IF n < 0 THEN Round(1, BFromInt(-n), 0, FALSE)
               ELSE Round(0, BFromInt(n), 0, FALSE)
FNeg(a) == IF a.m = <<>> THEN a ELSE [a EXCEPT !.s = 1 - a.s]

FAdd(a, b) ==
    IF a.m = <<>> THEN b
    ELSE IF b.m = <<>> THEN a
    ELSE LET e  == IF a.e < b.e THEN a.e ELSE b.e
             na == BShl(a.m, a.e - e)
             nb == BShl(b.m, b.e - e)
         IN  IF a.s = b.s THEN Round(a.s, BAdd(na, nb), e, FALSE)
             ELSE LET c == BCmp(na, nb)
                  IN  IF c = 0 THEN Zero
                      ELSE IF c > 0 THEN Round(a.s, BSub(na, nb), e, FALSE)
                      ELSE Round(b.s, BSub(nb, na), e, FALSE)
FSub(a, b) == FAdd(a, FNeg(b))

FMul(a, b) ==
    IF a.m = <<>> \/ b.m = <<>> THEN Zero
    ELSE Round((a.s + b.s) % 2, BMul(a.m, b.m), a.e + b.e, FALSE)

RECURSIVE TrailingZeroBits(_)
TrailingZeroBits(n) == IF n % 2 = 1 THEN 0 ELSE 1 + TrailingZeroBits(n \div 2)

\* for a # 0
RECURSIVE TrailingZeros(_)
TrailingZeros(a) == IF a[1] = 0 THEN 15 + TrailingZeros(Tail(a)) ELSE TrailingZeroBits(a[1])

\* a / b for b # 0 whose significand, trailing zero bits apart, fits one limb
\* (the difference of two whole numbers below 2^15 does)
FDiv(a, b) ==
    IF a.m = <<>> THEN Zero
    ELSE LET t == TrailingZeros(b.m)
             d == BShr(b.m, t)
             k == BBitLen(d) + Precision + 2
             r == BDiv(BShl(a.m, k), d)
         IN  Round((a.s + b.s) % 2, r.q, a.e - b.e - t - k, r.sticky)

\* |a| < |b| for a, b # 0
MagLess(a, b) == a.e < b.e \/ (a.e = b.e /\ BCmp(a.m, b.m) < 0)

\* a < b
FLess(a, b) ==
    IF a.m = <<>> THEN b.m # <<>> /\ b.s = 0
    ELSE IF b.m = <<>> THEN a.s = 1
    ELSE IF a.s # b.s THEN a.s = 1
    ELSE IF a.s = 0 THEN MagLess(a, b)
    ELSE MagLess(b, a)
FLeq(a, b) == ~FLess(b, a)

One == FFromInt(1)

\* 10 * np.finfo(np.float64).eps
TenEps == Round(0, BFromInt(10), 1 - Precision, FALSE)

-----------------------------------------------------------------------------
\* The table.  A text cell is a string, a numeric cell is <<>> (missing) or
\* <<n>>; the cargo volume cell is kept as the characters of the file, because
\* load_data parses it itself.

NaN == "<NaN>"
Missing == <<>>

\* pd.read_csv: these cell texts are read as missing (its default na_values,
\* those that occur in the modelled files)
NaTexts == {"", "n/a"}
NaCells == {<<>>, <<"n", "/", "a">>}

Digits == <<"0", "1", "2", "3", "4", "5", "6", "7", "8", "9">>
DigitValue(c) == (CHOOSE i \in 1..10 : Digits[i] = c) - 1
IsDigit(c) == \E i \in 1..10 : Digits[i] = c

RECURSIVE ParseDigits(_, _)
ParseDigits(cell, acc) ==
    IF cell = <<>> THEN acc
    ELSE ParseDigits(Tail(cell), 10 * acc + DigitValue(Head(cell)))

\* pd.to_numeric(..., errors='coerce') on one cell of whole-number text
to_numeric(cell) ==
    IF cell \in NaCells THEN Missing
    ELSE IF \A i \in 1..Len(cell) : IsDigit(cell[i]) THEN <<ParseDigits(cell, 0)>>
    ELSE Missing

ReadText(t) == IF t \in NaTexts THEN NaN ELSE t

\* pd.read_csv followed by the coercion of cargo_volume_l, row by row
ReadRow(r) ==
    [brand |-> ReadText(r.brand),
     drivetrain |-> ReadText(r.drivetrain),
     model |-> ReadText(r.model),
     top_speed_kmh |-> r.top_speed_kmh,
     acceleration_0_100_s |-> r.acceleration_0_100_s,
     range_km |-> r.range_km,
     battery_capacity_kWh |-> r.battery_capacity_kWh,
     cargo_volume_l |-> to_numeric(r.cargo_volume_l)]

read_csv(f) == [i \in 1..Len(f) |-> ReadRow(f[i])]

\* load_data without the memo: every call is a miss
CacheHit_Never == FALSE

\* @st.cache_data def load_data(): the body runs on a cache miss only
CacheHit == cache # <<>>
load_data == IF CacheHit THEN cache[1] ELSE read_csv(file)

-----------------------------------------------------------------------------
\* Filter engine

Range(s) == {s[i] : i \in 1..Len(s)}

\* the order Python's sorted() gives the text values of the modelled files
TextOrder == <<"AWD", "BMW", "Model 3", "Model Y", "RWD", "Tesla", "i4">>

\* sorted(column.dropna().unique())
SortedUnique(values) == SelectSeq(TextOrder, LAMBDA t : t \in values /\ t # NaN)

SampleSize == 5
Min(a, b) == IF a < b THEN a ELSE b

\* random.sample(options, min(5, len(options))): every outcome
RandomSamples(options) ==
    {S \in SUBSET Range(options) : Cardinality(S) = Min(SampleSize, Len(options))}

\* a multiselect that keeps picks that are no longer among its options
Multiselect_Stale(options, defaults) == defaults \cup SUBSET Range(TextOrder)

\* st.multiselect(label, options, default=...): the default on the first run of
\* a session, otherwise what the user has picked among the options
Multiselect(options, defaults) == defaults \cup SUBSET Range(options)

Brands(d) == SortedUnique({d[i].brand : i \in 1..Len(d)})

\* the drivetrain options taken from every brand
Drivetrains_AllBrands(d, sb) ==
    SortedUnique({d[i].drivetrain : i \in 1..Len(d)})

Drivetrains(d, sb) ==
    SortedUnique({d[i].drivetrain : i \in {j \in 1..Len(d) : d[j].brand \in sb}})

\* the model options narrowed by brand only
Models_AnyDrivetrain(d, sb, sd) ==
    SortedUnique({d[i].model : i \in {j \in 1..Len(d) : d[j].brand \in sb}})

Models(d, sb, sd) ==
    SortedUnique({d[i].model :
        i \in {j \in 1..Len(d) : d[j].brand \in sb /\ d[j].drivetrain \in sd}})

\* the filter without its model test
Filtered_NoModelTest(d, sb, sd, sm) ==
    SelectSeq(d, LAMBDA r : r.brand \in sb /\ r.drivetrain \in sd)

Filtered(d, sb, sd, sm) ==
    SelectSeq(d, LAMBDA r : r.brand \in sb /\ r.drivetrain \in sd /\ r.model \in sm)

\* lines 16-48
RunFilters ==
    /\ pc = "idle"
    /\ LET d  == load_data
           b  == Brands(d)
       IN  \E sb \in Multiselect(b, RandomSamples(b)) :
             LET dt == Drivetrains(d, sb)
             IN  \E sd \in Multiselect(dt, {Range(dt)}) :
                   LET m == Models(d, sb, sd)
                   IN  \E sm \in Multiselect(m, RandomSamples(m)) :
                         /\ df' = d
                         /\ cache' = <<d>>
                         /\ read_csv_calls' =
                              IF CacheHit THEN read_csv_calls
                              ELSE Append(read_csv_calls, d)
                         /\ brands' = b
                         /\ selected_brands' = sb
                         /\ drivetrains' = dt
                         /\ selected_drivetrains' = sd
                         /\ models' = m
                         /\ selected_models' = sm
                         /\ df_filtered' = Filtered(d, sb, sd, sm)
    /\ pc' = "filtered"
    /\ shown' = {}
    /\ fig_radar' = <<>>
    /\ UNCHANGED file

-----------------------------------------------------------------------------
\* Normalizer and presentation

radar_cols == <<"top_speed_kmh", "acceleration_0_100_s", "range_km",
                "battery_capacity_kWh", "cargo_volume_l">>

\* the radar input taken from df instead of df_filtered
radar_df_Unfiltered(d) ==
    SelectSeq(df, LAMBDA r : r.model # NaN /\ \A c \in 1..5 : r[radar_cols[c]] # Missing)

\* df_filtered[["model"] + radar_cols].dropna()
radar_df(d) ==
    SelectSeq(d, LAMBDA r : r.model # NaN /\ \A c \in 1..5 : r[radar_cols[c]] # Missing)

\* the copy without the negation
Negated_Not(rd) ==
    [i \in 1..Len(rd) |-> [c \in 1..5 |-> FFromInt(rd[i][radar_cols[c]][1])]]

\* the copy with the acceleration negated, as float64 columns
Negated(rd) ==
    [i \in 1..Len(rd) |->
        [c \in 1..5 |->
            IF radar_cols[c] = "acceleration_0_100_s"
            THEN FFromInt(-(rd[i][radar_cols[c]][1]))
            ELSE FFromInt(rd[i][radar_cols[c]][1])]]

ColMin(X, c) == CHOOSE v \in {X[i][c] : i \in 1..Len(X)} :
                    \A i \in 1..Len(X) : FLeq(v, X[i][c])
ColMax(X, c) == CHOOSE v \in {X[i][c] : i \in 1..Len(X)} :
                    \A i \in 1..Len(X) : FLeq(X[i][c], v)

\* sklearn _handle_zeros_in_scale
HandleZeros(scale) == IF FLess(scale, TenEps) THEN One ELSE scale

\* the scaler with min_ = data_min * scale_, the feature range's lower end
\* not subtracted from
fit_transform_MinSign(X) ==
    LET data_min == [c \in 1..5 |-> ColMin(X, c)]
        data_max == [c \in 1..5 |-> ColMax(X, c)]
        scale_   == [c \in 1..5 |->
                        FDiv(One, HandleZeros(FSub(data_max[c], data_min[c])))]
        min_     == [c \in 1..5 |-> FMul(data_min[c], scale_[c])]
    IN  [i \in 1..Len(X) |-> [c \in 1..5 |-> FAdd(FMul(X[i][c], scale_[c]), min_[c])]]

\* MinMaxScaler().fit_transform(X), feature_range (0, 1), clip=False
fit_transform(X) ==
    LET data_min == [c \in 1..5 |-> ColMin(X, c)]
        data_max == [c \in 1..5 |-> ColMax(X, c)]
        scale_   == [c \in 1..5 |->
                        FDiv(One, HandleZeros(FSub(data_max[c], data_min[c])))]
        min_     == [c \in 1..5 |-> FSub(Zero, FMul(data_min[c], scale_[c]))]
    IN  [i \in 1..Len(X) |-> [c \in 1..5 |-> FAdd(FMul(X[i][c], scale_[c]), min_[c])]]

radar_df_norm(rd) == fit_transform(Negated(rd))

\* one go.Scatterpolar per row of radar_df_norm
Traces(rd) ==
    LET n == radar_df_norm(rd)
    IN  [i \in 1..Len(rd) |-> [name |-> rd[i].model, r |-> n[i]]]

\* the page with the warning bound to the radar test instead of the outer one
Page_InnerElse(d) ==
    IF d # <<>>
    THEN {"table", "bubble", "line", "bar", "raw"}
         \cup (IF radar_df(d) # <<>> THEN {"radar"} ELSE {"warning"})
    ELSE {"table", "raw"}

\* what lines 50-160 put on the page for a filtered table d
Page(d) ==
    IF d # <<>>
    THEN {"table", "bubble", "line", "bar", "raw"}
         \cup (IF radar_df(d) # <<>> THEN {"radar"} ELSE {})
    ELSE {"table", "warning", "raw"}

\* lines 50-160
Present ==
    /\ pc = "filtered"
    /\ shown' = Page(df_filtered)
    /\ fig_radar' = IF "radar" \in Page(df_filtered)
                    THEN Traces(radar_df(df_filtered))
                    ELSE <<>>
    /\ pc' = "idle"
    /\ UNCHANGED <<file, cache, read_csv_calls, df, brands, selected_brands,
                   drivetrains, selected_drivetrains, models, selected_models,
                   df_filtered>>

\* cleaned_data.csv is rewritten on disk between two runs (here: its data rows
\* are removed, the header stays)
EditFile ==
    /\ pc = "idle"
    /\ file # <<>>
    /\ file' = <<>>
    /\ UNCHANGED <<cache, read_csv_calls, pc, df, brands, selected_brands,
                   drivetrains, selected_drivetrains, models, selected_models,
                   df_filtered, shown, fig_radar>>

Next == RunFilters \/ Present \/ EditFile

-----------------------------------------------------------------------------
\* Initial states: the process has just started, nothing is cached, and
\* cleaned_data.csv holds up to MaxRows data rows.

Seqs(S, n) == UNION {[1..k -> S] : k \in 0..n}

Started(f) ==
    /\ file = f
    /\ cache = <<>>
    /\ read_csv_calls = <<>>
    /\ pc = "idle"
    /\ df = <<>>
    /\ brands = <<>> /\ selected_brands = {}
    /\ drivetrains = <<>> /\ selected_drivetrains = {}
    /\ models = <<>> /\ selected_models = {}
    /\ df_filtered = <<>>
    /\ shown = {}
    /\ fig_radar = <<>>

\* files that vary the three text columns; the feature cells are the same in
\* every row, the cargo volume not being a number
FacetRows ==
    [brand : {"BMW", "Tesla"},
     drivetrain : {"", "AWD", "RWD"},
     model : {"", "i4", "Model 3"},
     top_speed_kmh : {<<200>>},
     acceleration_0_100_s : {<<5>>},
     range_km : {<<400>>},
     battery_capacity_kWh : {<<75>>},
     cargo_volume_l : {<<"T", "B", "D">>}]

Init == \E f \in Seqs(FacetRows, MaxRows) : Started(f)

Spec == Init /\ [][Next]_vars

\* files of one brand and drivetrain that vary the five radar features
Feature(ts, acc, rng, bat, cargo) ==
    [top_speed_kmh |-> ts, acceleration_0_100_s |-> acc, range_km |-> rng,
     battery_capacity_kWh |-> bat, cargo_volume_l |-> cargo]

Lo == Feature(<<100>>, <<7>>, <<400>>, <<60>>, <<"4", "5", "0">>)
Hi == Feature(<<199>>, <<3>>, <<500>>, <<75>>, <<"5", "2", "0">>)

FeatureRows ==
    {Lo, Hi,
     [Lo EXCEPT !.top_speed_kmh = Missing],
     [Lo EXCEPT !.acceleration_0_100_s = Missing],
     [Lo EXCEPT !.range_km = Missing],
     [Lo EXCEPT !.battery_capacity_kWh = Missing],
     [Lo EXCEPT !.cargo_volume_l = <<>>],
     [Lo EXCEPT !.cargo_volume_l = <<"n", "/", "a">>],
     [Lo EXCEPT !.cargo_volume_l = <<"T", "B", "D">>]}

RadarRows ==
    {[brand |-> "Tesla", drivetrain |-> "AWD", model |-> m,
      top_speed_kmh |-> f.top_speed_kmh,
      acceleration_0_100_s |-> f.acceleration_0_100_s,
      range_km |-> f.range_km,
      battery_capacity_kWh |-> f.battery_capacity_kWh,
      cargo_volume_l |-> f.cargo_volume_l] :
        m \in {"Model 3", "Model Y"}, f \in FeatureRows}

InitRadar == \E f \in Seqs(RadarRows, MaxRows) : Started(f)

SpecRadar == InitRadar /\ [][Next]_vars

-----------------------------------------------------------------------------
\* Properties

Rendered == pc = "idle" /\ cache # <<>>
Charts == {"bubble", "line", "bar", "radar"}
Rows(d) == 1..Len(d)

\* the position of a text value in Python's string order
Rank(t) == CHOOSE i \in 1..Len(TextOrder) : TextOrder[i] = t
Ascending(s) == \A i \in 1..Len(s) - 1 : Rank(s[i]) < Rank(s[i + 1])

\* C1: the drivetrain options are exactly the distinct (non-missing)
\* drivetrain values of the records whose brand is selected, in sorted order
C1_DrivetrainOptions ==
    /\ Range(drivetrains) =
         {df[i].drivetrain : i \in {j \in Rows(df) : df[j].brand \in selected_brands}}
         \ {NaN}
    /\ Ascending(drivetrains)

\* a drivetrain that occurs only under an unselected brand is not offered,
\* while another one is
C1_Witness ==
    /\ drivetrains # <<>>
    /\ \E i \in Rows(df) :
         /\ df[i].brand \notin selected_brands
         /\ df[i].drivetrain # NaN
         /\ df[i].drivetrain \notin Range(drivetrains)

\* C2: the model options are exactly the distinct (non-missing) model values
\* of the records whose brand and drivetrain are both selected, in sorted order
C2_ModelOptions ==
    /\ Range(models) =
         {df[i].model : i \in {j \in Rows(df) :
              /\ df[j].brand \in selected_brands
              /\ df[j].drivetrain \in selected_drivetrains}}
         \ {NaN}
    /\ Ascending(models)

\* a model of a selected brand is not offered because its drivetrain is not
\* selected, while another model is offered
C2_Witness ==
    /\ models # <<>>
    /\ \E i \in Rows(df) :
         /\ df[i].brand \in selected_brands
         /\ df[i].drivetrain \notin selected_drivetrains
         /\ df[i].model # NaN
         /\ df[i].model \notin Range(models)

Matches(r) ==
    /\ r.brand \in selected_brands
    /\ r.drivetrain \in selected_drivetrains
    /\ r.model \in selected_models

\* C3: df_filtered is the subsequence of df of the records that pass the three
\* membership tests, in the order of df; it is empty when a selected set is
IsMatchingSubsequence ==
    LET hits == {i \in Rows(df) : Matches(df[i])}
    IN  /\ Len(df_filtered) = Cardinality(hits)
        /\ \E at \in [Rows(df_filtered) -> hits] :
             /\ \A k \in Rows(df_filtered) : df_filtered[k] = df[at[k]]
             /\ \A k \in 1..Len(df_filtered) - 1 : at[k] < at[k + 1]

C3_FilteredView ==
    /\ IsMatchingSubsequence
    /\ (selected_brands = {} \/ selected_drivetrains = {} \/ selected_models = {})
          => df_filtered = <<>>

\* the second of two records is kept and the first is filtered out
C3_Witness ==
    /\ Len(df) = 2
    /\ df_filtered = <<df[2]>>
    /\ df[1] # df[2]

\* C4: after a run, an empty df_filtered means no chart and the warning; a
\* non-empty one means no warning
C4_EmptyViewNotice ==
    Rendered =>
        /\ df_filtered = <<>> => (shown \cap Charts = {} /\ "warning" \in shown)
        /\ df_filtered # <<>> => "warning" \notin shown

\* a run has ended with the warning although the table has records
C4_Witness ==
    Rendered /\ df # <<>> /\ df_filtered = <<>> /\ "warning" \in shown

\* C5: the file is read once, by the first load_data() call, and every run
\* works on what that read returned
C5_ReadOnce ==
    /\ Len(read_csv_calls) <= 1
    /\ cache # <<>> => /\ Len(read_csv_calls) = 1
                       /\ df = read_csv_calls[1]

\* a run after the file has changed on disk still has the first table
C5_Witness ==
    pc = "filtered" /\ df # <<>> /\ read_csv(file) # df

\* the raw value of radar column c in row i of the radar input
Raw(i, c) == radar_df(df_filtered)[i][radar_cols[c]][1]
Acceleration == CHOOSE c \in 1..5 : radar_cols[c] = "acceleration_0_100_s"
\* ... after the acceleration has been negated
Signed(i, c) == IF c = Acceleration THEN -Raw(i, c) ELSE Raw(i, c)

NonDegenerate ==
    \A c \in 1..5 : \E i, j \in Rows(fig_radar) : Raw(i, c) # Raw(j, c)

\* C6: with min # max in each of the five columns, every normalized value is
\* in [0, 1], the column minimum at 0 and the column maximum at 1
C6_UnitInterval ==
    (fig_radar # <<>> /\ NonDegenerate) =>
        \A i \in Rows(fig_radar), c \in 1..5 :
            /\ FLeq(Zero, fig_radar[i].r[c])
            /\ FLeq(fig_radar[i].r[c], One)
            /\ (\A j \in Rows(fig_radar) : Signed(i, c) <= Signed(j, c))
                  => fig_radar[i].r[c] = Zero
            /\ (\A j \in Rows(fig_radar) : Signed(i, c) >= Signed(j, c))
                  => fig_radar[i].r[c] = One

\* C7: a record with a strictly lower acceleration time never has a lower
\* normalized acceleration than one with a higher time; so the fastest record
\* has the highest normalized acceleration
C7_FasterIsHigher ==
    \A i, j \in Rows(fig_radar) :
        Raw(i, Acceleration) < Raw(j, Acceleration)
            => FLeq(fig_radar[j].r[Acceleration], fig_radar[i].r[Acceleration])

\* two traces, the faster record strictly above the slower one
C7_Witness ==
    \E i, j \in Rows(fig_radar) :
        /\ Raw(i, Acceleration) < Raw(j, Acceleration)
        /\ FLess(fig_radar[j].r[Acceleration], fig_radar[i].r[Acceleration])

Half == Round(0, BFromInt(1), -1, FALSE)

\* C8 as claimed: a single-row radar input yields 0.5 for each feature
C8_SingleRowHalf ==
    Len(fig_radar) = 1 => \A c \in 1..5 : fig_radar[1].r[c] = Half

\* C8 as the code has it: a single-row radar input is scaled without a
\* division by zero and yields 0.0 for each feature
C8_SingleRowZero ==
    Len(fig_radar) = 1 => \A c \in 1..5 : fig_radar[1].r[c] = Zero

C8_Witness ==
    Len(fig_radar) = 1 /\ Len(df_filtered) = 1

Complete(r) == \A c \in 1..5 : r[radar_cols[c]] # Missing

\* C9: after a run with a non-empty df_filtered the radar figure has one
\* trace per record of df_filtered with all five features, in order, and none
\* for the others; without such a record there is no radar chart, but the
\* other three charts are there
C9_RadarTraces ==
    (Rendered /\ df_filtered # <<>>) =>
        LET full == {i \in Rows(df_filtered) : Complete(df_filtered[i])}
        IN  /\ Len(fig_radar) = Cardinality(full)
            /\ \E at \in [Rows(fig_radar) -> full] :
                 /\ \A k \in Rows(fig_radar) :
                      fig_radar[k].name = df_filtered[at[k]].model
                 /\ \A k \in 1..Len(fig_radar) - 1 : at[k] < at[k + 1]
            /\ full = {} => /\ "radar" \notin shown
                            /\ {"bubble", "line", "bar"} \subseteq shown
            /\ full # {} => "radar" \in shown

\* two records are shown, the one that lacks a feature has no trace
C9_Witness ==
    /\ Rendered
    /\ Len(df_filtered) = 2
    /\ Len(fig_radar) = 1
    /\ ~Complete(df_filtered[1])
    /\ fig_radar[1].name = df_filtered[2].model

\* C10: the selections are among the options offered, so df_filtered is empty
\* exactly when no model is selected, and the warning appears exactly then
C10_EmptyIffNoModel ==
    /\ selected_brands \subseteq Range(brands)
    /\ selected_drivetrains \subseteq Range(drivetrains)
    /\ selected_models \subseteq Range(models)
    /\ (pc = "filtered" \/ Rendered) => (df_filtered = <<>> <=> selected_models = {})
    /\ Rendered => ("warning" \in shown <=> selected_models = {})

\* brands are selected, no drivetrain is: no model is offered and the run ends
\* with the warning
C10_Witness ==
    /\ Rendered
    /\ selected_brands # {}
    /\ drivetrains # <<>>
    /\ selected_drivetrains = {}
    /\ models = <<>>
    /\ "warning" \in shown
====
